---- MODULE Spec2Model ----
(***************************************************************************)
(* Model of fl/view.py: the three interactive viewers                      *)
(* (slide_reconstruct_corr, slide_reconstruct, slide_reconstruction) and   *)
(* the two batch exports (slide_reconstruction with save=True,             *)
(* animate_emissivity).                                                     *)
(*                                                                         *)
(* Python scoping is modelled as the interpreter does it: a name declared  *)
(* `global` inside a callback is a name of the module namespace            *)
(* (module_globals), not the local of the enclosing viewer function        *)
(* (enclosing).  A read of an unbound module name raises NameError.  The   *)
(* model is one viewer session in a fresh interpreter.                     *)
(*                                                                         *)
(* Images are small integer arrays; array indices are Python's (0-based,   *)
(* negative indices count from the end) and are translated to TLA+'s       *)
(* 1-based sequences by PyGet.                                             *)
(***************************************************************************)
EXTENDS Integers, Sequences, FiniteSets, TLC

(***************************************************************************)
(* Bounds of the model.                                                    *)
(***************************************************************************)
MaxFrames == 2         \* at most this many camera frames in a shot
MaxBasis == 2          \* at most this many field-line images in a library
MaxWeight == 1         \* NNLS weights are searched on the grid 0..MaxWeight
MaxLambda == 1         \* smoothing_param is 0 or MaxLambda
MaxSegmentLen == 2     \* at most this many cached frames in a segment

\* FuncAnimation(fig, update, frames=1000, ...) in slide_reconstruction
SaveFrames == 1000

VARIABLES
    viewer,            \* which entry point of view.py is running
    frames,            \* acquire.video(...): the camera frames
    times,             \* acquire.gpi_series(..., 'time') (`time` in two viewers)
    efit_times,        \* acquire.time_flux_extent(...)[0]
    fl_images,         \* the field-line images (`fls` in slide_reconstruct_corr);
                       \* one image set per segment in the cached viewer
    fl_r, fl_z,        \* field-line R, Z (lists fl_rs, fl_zs in the cached viewer)
    smoothing_param,
    geomatrix,         \* geomatrix (the list geomatrices in the cached viewer)
    geomatrix_smooth,
    r_grid, z_grid,    \* the display grid, kept as its (min, max) bounds
    xcorrs,            \* the score array of slide_reconstruct_corr
    enclosing,         \* locals of the viewer function that callbacks never rebind
    module_globals,    \* the module namespace: names bound by `global` statements
    artists,           \* what each matplotlib artist currently displays
    sliders,           \* Slider.val of each slider, in half units
    inv,               \* the last value returned by inversion_func
    solver_args,       \* the arguments of the last inversion_func call
    raised,            \* the exception the last callback propagated, or "none"
    emissivities,      \* the cached weight rows, one array per segment
    previous_segments_frame_count,
    efit_phantom_start_index,
    lookup,            \* the last (segment, offset) a cached row was read at
    anim               \* the FuncAnimation being saved: next frame, count, status

inputs == <<viewer, frames, times, efit_times, fl_images, fl_r, fl_z,
            smoothing_param, r_grid, z_grid, emissivities,
            previous_segments_frame_count, efit_phantom_start_index>>
matrices == <<geomatrix, geomatrix_smooth>>
vars == <<inputs, matrices, xcorrs, enclosing, module_globals, artists,
          sliders, inv, solver_args, raised, lookup, anim>>

(***************************************************************************)
(* Python and numpy primitives.                                            *)
(***************************************************************************)
\* seq[i] is defined iff -len <= i < len
InRange(n, i) == -n <= i /\ i < n

\* seq[i] with Python's index convention
PyGet(seq, i) == seq[IF i < 0 THEN i + Len(seq) + 1 ELSE i + 1]

\* A slider value is a float; it is kept in half units (3 stands for 1.5).
\* int(val): truncation toward zero
PyInt(val) == IF val >= 0 THEN val \div 2 ELSE -((-val) \div 2)

\* the slider value that stands for the Python int n
OfInt(n) == n * 2

\* name -> value with one more binding
Bind(ns, name, value) ==
    [n \in DOMAIN ns \cup {name} |-> IF n = name THEN value ELSE ns[n]]

Bound(name) == name \in DOMAIN module_globals

RECURSIVE SumSeq(_)
SumSeq(s) == IF s = <<>> THEN 0 ELSE Head(s) + SumSeq(Tail(s))

RECURSIVE FlattenRows(_)
\* ndarray.flatten(): row-major
FlattenRows(img) == IF img = <<>> THEN <<>> ELSE Head(img) \o FlattenRows(Tail(img))

flatten(img) == FlattenRows(img)

\* ndarray.reshape((rows, cols)) of a flat array
reshape(v, rows, cols) ==
    [r \in 1..rows |-> [c \in 1..cols |-> v[(r - 1) * cols + c]]]

\* np.transpose of a matrix given as a sequence of rows
transpose(m) ==
    IF m = <<>> THEN <<>>
    ELSE [c \in 1..Len(m[1]) |-> [r \in 1..Len(m) |-> m[r][c]]]

identity(n) == [r \in 1..n |-> [c \in 1..n |-> IF r = c THEN 1 ELSE 0]]

scale(k, m) == [r \in 1..Len(m) |-> [c \in 1..Len(m[r]) |-> k * m[r][c]]]

zeros(n) == [i \in 1..n |-> 0]

\* np.concatenate along axis 0
concatenate(a, b) == a \o b

\* matrix.dot(vector)
dot(m, w) ==
    [r \in 1..Len(m) |-> SumSeq([c \in 1..Len(w) |-> m[r][c] * w[c]])]

\* elementwise a - b of two images
minus(a, b) ==
    [r \in 1..Len(a) |-> [c \in 1..Len(a[r]) |-> a[r][c] - b[r][c]]]

Min(S) == CHOOSE x \in S : \A y \in S : x <= y
Max(S) == CHOOSE x \in S : \A y \in S : x >= y
Range(s) == {s[i] : i \in DOMAIN s}

\* np.linspace(lo, hi, 100) and np.meshgrid, kept as the bounds of the grid
linspace(lo, hi) == <<lo, hi>>

\* matplotlib.mlab.griddata: the field interpolated from the scattered samples;
\* an uninterpreted function of its arguments
griddata(r, z, values, rg, zg) ==
    [r |-> r, z |-> z, values |-> values, r_grid |-> rg, z_grid |-> zg]

(***************************************************************************)
(* process.find_nearest(array, value): the index of the element of array   *)
(* nearest to value, the lowest such index on ties.                        *)
(***************************************************************************)
Abs(x) == IF x < 0 THEN -x ELSE x

find_nearest(array, value) ==
    (CHOOSE i \in 1..Len(array) :
        /\ \A j \in 1..Len(array) : Abs(array[i] - value) <= Abs(array[j] - value)
        /\ \A j \in 1..(i - 1) : Abs(array[j] - value) > Abs(array[i] - value)) - 1

(***************************************************************************)
(* scipy.optimize.nnls(A, b): argmin ||A.w - b||^2 subject to w >= 0,      *)
(* returned as (solution, residual).  The minimum is searched on the       *)
(* integer grid 0..MaxWeight and the residual is kept squared.             *)
(***************************************************************************)
Square(x) == x * x

Residual(A, b, w) ==
    SumSeq([r \in 1..Len(A) |->
              Square(SumSeq([c \in 1..Len(w) |-> A[r][c] * w[c]]) - b[r])])

\* the pairs (w, residual) of least residual
Minimisers(A, b, grid) ==
    CHOOSE best \in {{p \in table : \A q \in table : p[2] <= q[2]} :
                        table \in {{<<w, Residual(A, b, w)>> : w \in grid}}} : TRUE

Solve(A, b, grid) == CHOOSE p \in Minimisers(A, b, grid) : TRUE

nnls(A, b) == Solve(A, b, [1..Len(A[1]) -> 0..MaxWeight])

\* least squares without the sign constraint
lstsq(A, b) == Solve(A, b, [1..Len(A[1]) -> (-MaxWeight)..MaxWeight])

\* the solver bound at `inversion_func = scipy.optimize.nnls`
inversion_func(A, b) == nnls(A, b)

(***************************************************************************)
(* Inputs of a session.                                                    *)
(***************************************************************************)
ImgA == <<<<1, 0>>, <<0, 0>>>>
ImgB == <<<<0, 1>>, <<0, 0>>>>
ImgC == <<<<1, 1>>, <<0, 0>>>>
ImagePool == {ImgA, ImgB, ImgC}
ImageRows == Len(ImgA)
ImageCols == Len(ImgA[1])

\* a video of n frames: the pool images in a fixed cyclic order
Cycle == <<ImgC, ImgA, ImgB>>
Video(n) == [i \in 1..n |-> Cycle[((i - 1) % Len(Cycle)) + 1]]
Videos == {Video(n) : n \in 1..MaxFrames}

\* frame i is taken at time i
FrameTimes(n) == [i \in 1..n |-> i - 1]

\* one equilibrium every second frame
EfitEverySecond(n) == [i \in 1..((n + 1) \div 2) |-> 2 * (i - 1)]

\* the libraries: 1..MaxBasis distinct pool images, in the pool's order
PoolRank(img) == CHOOSE k \in 1..Len(Cycle) : Cycle[k] = img
Libraries ==
    UNION {{lib \in [1..n -> ImagePool] :
              \A i \in 1..(n - 1) : PoolRank(lib[i]) < PoolRank(lib[i + 1])} :
           n \in 1..MaxBasis}

\* R, Z of the field lines of a library of n images
FieldLineR(n) == [i \in 1..n |-> i]
FieldLineZ(n) == [i \in 1..n |-> n - i]

Faults == {"none", "solver", "interp"}

\* the viewers that read no cached segments and save no animation
NoSegments ==
    /\ emissivities = <<>>
    /\ previous_segments_frame_count = <<>>
    /\ efit_phantom_start_index = 0
    /\ lookup = <<>>
    /\ anim = <<>>

\* slider positions between valmin = 0 and valmax = n - 1
SliderPositions(n) == 0..OfInt(n - 1)

(***************************************************************************)
(* slide_reconstruct: the NNLS viewer.                                     *)
(***************************************************************************)
build_geomatrix(images) ==
    transpose([i \in 1..Len(images) |-> flatten(images[i])])

build_geomatrix_smooth(g, images, sp) ==
    concatenate(g, scale(sp, identity(Len(images))))

build_target_smooth(target, images) ==
    concatenate(flatten(target), zeros(Len(images)))

InitNnls ==
    /\ viewer = "nnls"
    /\ NoSegments
    /\ frames \in Videos
    /\ times = FrameTimes(Len(frames))
    /\ efit_times = EfitEverySecond(Len(frames))
    /\ fl_images \in Libraries
    /\ fl_r = FieldLineR(Len(fl_images))
    /\ fl_z = FieldLineZ(Len(fl_images))
    /\ smoothing_param \in {0, MaxLambda}
    /\ geomatrix = build_geomatrix(fl_images)
    /\ geomatrix_smooth = build_geomatrix_smooth(geomatrix, fl_images, smoothing_param)
    /\ solver_args = <<geomatrix_smooth, build_target_smooth(frames[1], fl_images)>>
    /\ inv = inversion_func(solver_args[1], solver_args[2])
    /\ r_grid = linspace(Min(Range(fl_r)), Max(Range(fl_r)))
    /\ z_grid = linspace(Min(Range(fl_z)), Max(Range(fl_z)))
    /\ xcorrs = <<>>
    /\ enclosing = [frame_index |-> 0]
    /\ module_globals = <<>>
    /\ \E reconstructed \in {reshape(dot(geomatrix, inv[1]), ImageRows, ImageCols)} :
           artists = [plasma_image |-> frames[1],
                      reconstruction_image |-> reconstructed,
                      error_image |-> minus(frames[1], reconstructed),
                      emissivity_image |-> griddata(fl_r, fl_z, inv[1], r_grid, z_grid),
                      l |-> find_nearest(efit_times, times[1])]
    /\ sliders = [gpi_slider |-> 0]
    /\ raised = "none"

\* the unsmoothed system of the commented-out call inversion_func(geomatrix, target)
nnls_solver_input_plain(fi) == <<geomatrix, flatten(PyGet(frames, fi))>>

\* the system update_data hands to inversion_func
nnls_solver_input(fi) ==
    <<geomatrix_smooth, build_target_smooth(PyGet(frames, fi), fl_images)>>

\* a frame update that stacks the smoothing rows onto the cached matrix again
update_data_restacks ==
    /\ geomatrix_smooth' = build_geomatrix_smooth(geomatrix_smooth, fl_images,
                                                   smoothing_param)
    /\ UNCHANGED <<inputs, geomatrix, xcorrs, enclosing, lookup, anim>>

\* what a frame update leaves alone: the inputs and the cached matrices
update_data_keeps == UNCHANGED <<inputs, matrices, xcorrs, enclosing, lookup, anim>>

nnls_update_data(val, fault) ==
    \E fi \in {PyInt(val)} :
    \E g1 \in {Bind(module_globals, "frame_index", fi)} :
    IF ~InRange(Len(frames), fi) THEN
        /\ module_globals' = g1
        /\ raised' = "IndexError"
        /\ UNCHANGED <<artists, inv, solver_args>>
    ELSE
    \E args \in {nnls_solver_input(fi)} :
    IF fault = "solver" THEN
        /\ module_globals' = g1
        /\ solver_args' = args
        /\ raised' = "SolverError"
        /\ UNCHANGED <<artists, inv>>
    ELSE
    \E result \in {inversion_func(args[1], args[2])} :
    \E reconstructed \in {reshape(dot(geomatrix, result[1]), ImageRows, ImageCols)} :
    \E g2 \in {Bind(g1, "reconstructed", reconstructed)} :
    IF fault = "interp" THEN
        /\ module_globals' = g2
        /\ solver_args' = args
        /\ inv' = result
        /\ raised' = "GriddataError"
        /\ UNCHANGED artists
    ELSE
    \E emissivity_grid \in {griddata(fl_r, fl_z, result[1], r_grid, z_grid)} :
        /\ module_globals' = Bind(g2, "emissivity_grid", emissivity_grid)
        /\ solver_args' = args
        /\ inv' = result
        /\ artists' = [plasma_image |-> PyGet(frames, fi),
                       reconstruction_image |-> reconstructed,
                       error_image |-> minus(PyGet(frames, fi), reconstructed),
                       emissivity_image |-> emissivity_grid,
                       l |-> find_nearest(efit_times, PyGet(times, fi))]
        /\ raised' = "none"

\* how far the model follows frame_index beyond the frames
Followed(fi) == fi >= -(Len(frames) + 2) /\ fi <= Len(frames) + 1

\* gpi_slider.on_changed(update_data): the user drags the frame slider
NnlsGpiSlider ==
    /\ viewer = "nnls"
    /\ \E val \in SliderPositions(Len(frames)), fault \in Faults :
        /\ sliders' = [sliders EXCEPT !.gpi_slider = val]
        /\ nnls_update_data(val, fault)
    /\ update_data_keeps

\* forward_button.on_clicked(forward) and back_button.on_clicked(backward)
nnls_step(delta) ==
    /\ update_data_keeps
    /\ UNCHANGED sliders
    /\ IF ~Bound("frame_index")
       THEN raised' = "NameError" /\ UNCHANGED <<module_globals, artists, inv, solver_args>>
       ELSE \E fi \in {module_globals.frame_index + delta} :
            /\ Followed(fi)
            /\ \E fault \in Faults : nnls_update_data(OfInt(fi), fault)

NnlsForward == viewer = "nnls" /\ nnls_step(1)

NnlsBackward == viewer = "nnls" /\ nnls_step(-1)

(***************************************************************************)
(* signals.cross_correlation(frame, fl): the zero-mean normalised          *)
(* cross-correlation of two images.  A score is kept exactly, as the pair  *)
(* (num, den) that stands for num / sqrt(den), den > 0.                    *)
(***************************************************************************)
\* pixel values minus their mean, scaled by the pixel count
Centred(v) == [p \in 1..Len(v) |-> Len(v) * v[p] - SumSeq(v)]

cross_correlation(frame, fl) ==
    CHOOSE score \in {[num |-> SumSeq([p \in 1..Len(a) |-> a[p] * b[p]]),
                       den |-> SumSeq([p \in 1..Len(a) |-> a[p] * a[p]])
                               * SumSeq([p \in 1..Len(b) |-> b[p] * b[p]])] :
                      a \in {Centred(flatten(frame))},
                      b \in {Centred(flatten(fl))}} : TRUE

\* x < y for two scores
ScoreLess(x, y) ==
    IF x.num < 0 /\ y.num >= 0 THEN TRUE
    ELSE IF x.num >= 0 /\ y.num < 0 THEN FALSE
    ELSE IF x.num >= 0
         THEN x.num * x.num * y.den < y.num * y.num * x.den
         ELSE x.num * x.num * y.den > y.num * y.num * x.den

ScoreEqual(x, y) == ~ScoreLess(x, y) /\ ~ScoreLess(y, x)

\* np.argsort(xs): the 0-based indices in ascending order of xs.  The default
\* sort is not stable, so equal elements may come out in either order.
argsort(xs) ==
    {p \in [1..Len(xs) -> 0..(Len(xs) - 1)] :
        /\ \A i, j \in 1..Len(xs) : i # j => p[i] # p[j]
        /\ \A i \in 1..(Len(xs) - 1) : ~ScoreLess(PyGet(xs, p[i + 1]), PyGet(xs, p[i]))}

\* seq[::-1]
reversed(seq) == [i \in 1..Len(seq) |-> seq[Len(seq) + 1 - i]]

(***************************************************************************)
(* slide_reconstruct_corr: the rank-correlation viewer.                    *)
(***************************************************************************)
\* the loop that fills xcorrs for one frame
score_all(frame) == [i \in 1..Len(fl_images) |-> cross_correlation(frame, fl_images[i])]

\* the ranking update_data stores: best match first
rank_indices(sorted) == reversed(sorted)

InitCorr ==
    /\ viewer = "corr"
    /\ NoSegments
    /\ frames \in Videos
    /\ times = FrameTimes(Len(frames))
    /\ efit_times = EfitEverySecond(Len(frames))
    /\ fl_images \in Libraries
    /\ fl_r = FieldLineR(Len(fl_images))
    /\ fl_z = FieldLineZ(Len(fl_images))
    /\ smoothing_param = 0
    /\ geomatrix = <<>>
    /\ geomatrix_smooth = <<>>
    /\ solver_args = <<>>
    /\ inv = <<>>
    /\ r_grid = linspace(Min(Range(fl_r)), Max(Range(fl_r)))
    /\ z_grid = linspace(Min(Range(fl_z)), Max(Range(fl_z)))
    /\ xcorrs = score_all(frames[1])
    /\ \E indices \in argsort(xcorrs) :
        /\ enclosing = [frame_index |-> 0, indices |-> indices]
        /\ artists = [plasma_image |-> frames[1],
                      fl_image |-> PyGet(fl_images, PyGet(indices, -1)),
                      f |-> <<PyGet(fl_r, PyGet(indices, -1)),
                              PyGet(fl_z, PyGet(indices, -1))>>,
                      l |-> find_nearest(efit_times, times[1]),
                      xcorr_image |-> griddata(fl_r, fl_z, xcorrs, r_grid, z_grid)]
    /\ module_globals = <<>>
    /\ sliders = [fl_slider |-> 0, gpi_slider |-> 0]
    /\ raised = "none"

\* update_images(val), run in the module namespace g
update_images(g, val) ==
    \E k \in {PyInt(val)} :
    IF "frame_index" \notin DOMAIN g THEN
        /\ raised' = "NameError"
        /\ UNCHANGED artists
    ELSE IF ~InRange(Len(times), g.frame_index) THEN
        /\ raised' = "IndexError"
        /\ UNCHANGED artists
    ELSE IF "indices" \notin DOMAIN g THEN
        /\ artists' = [artists EXCEPT !.plasma_image = PyGet(frames, g.frame_index)]
        /\ raised' = "NameError"
    ELSE
        /\ artists' = [plasma_image |-> PyGet(frames, g.frame_index),
                       fl_image |-> PyGet(fl_images, PyGet(g.indices, k)),
                       f |-> <<PyGet(fl_r, PyGet(g.indices, k)),
                               PyGet(fl_z, PyGet(g.indices, k))>>,
                       l |-> find_nearest(efit_times, PyGet(times, g.frame_index)),
                       xcorr_image |-> g.xcorr_grid]
        /\ raised' = "none"

corr_update_data(val, fault) ==
    \E fi \in {PyInt(val)} :
    \E g1 \in {Bind(module_globals, "frame_index", fi)} :
    IF ~InRange(Len(frames), fi) THEN
        /\ module_globals' = g1
        /\ raised' = "IndexError"
        /\ UNCHANGED <<artists, xcorrs>>
    ELSE
    \E scores \in {score_all(PyGet(frames, fi))} :
    IF fault = "interp" THEN
        /\ module_globals' = g1
        /\ xcorrs' = scores
        /\ raised' = "GriddataError"
        /\ UNCHANGED artists
    ELSE
    \E sorted \in argsort(scores) :
    \E g3 \in {Bind(Bind(g1, "xcorr_grid", griddata(fl_r, fl_z, scores, r_grid, z_grid)),
                    "indices", rank_indices(sorted))} :
        /\ module_globals' = g3
        /\ xcorrs' = scores
        /\ update_images(g3, OfInt(0))

corr_keeps == UNCHANGED <<inputs, matrices, enclosing, inv, solver_args, lookup, anim>>

\* gpi_slider.on_changed(update_data)
CorrGpiSlider ==
    /\ viewer = "corr"
    /\ \E val \in SliderPositions(Len(frames)), fault \in {"none", "interp"} :
        /\ sliders' = [sliders EXCEPT !.gpi_slider = val]
        /\ corr_update_data(val, fault)
    /\ corr_keeps

\* fl_slider.on_changed(update_images)
CorrFlSlider ==
    /\ viewer = "corr"
    /\ \E val \in SliderPositions(Len(fl_images)) :
        /\ sliders' = [sliders EXCEPT !.fl_slider = val]
        /\ update_images(module_globals, val)
    /\ UNCHANGED <<module_globals, xcorrs>>
    /\ corr_keeps

corr_step(delta) ==
    /\ corr_keeps
    /\ UNCHANGED sliders
    /\ IF ~Bound("frame_index")
       THEN raised' = "NameError" /\ UNCHANGED <<module_globals, artists, xcorrs>>
       ELSE \E fi \in {module_globals.frame_index + delta} :
            /\ Followed(fi)
            /\ \E fault \in {"none", "interp"} : corr_update_data(OfInt(fi), fault)

CorrForward == viewer = "corr" /\ corr_step(1)

CorrBackward == viewer = "corr" /\ corr_step(-1)

(***************************************************************************)
(* slide_reconstruction: the viewer of cached segments, and its save       *)
(* branch; animate_emissivity.                                             *)
(***************************************************************************)
\* the frame counts of the cached segments: one or two segments
SegmentSizes == UNION {[1..n -> 1..MaxSegmentLen] : n \in {1, 2}}

\* the equilibrium times: strictly increasing, among the frame times and one more
EfitTimes ==
    {e \in UNION {[1..n -> 0..MaxFrames] : n \in 1..(MaxFrames + 1)} :
        \A i \in 1..(Len(e) - 1) : e[i] < e[i + 1]}

\* the library of segment s: two pool images, rotating with s
SegmentLibrary(s) ==
    <<Cycle[((s - 1) % Len(Cycle)) + 1], Cycle[(s % Len(Cycle)) + 1]>>

\* the cached weight row of frame k of segment s: (s, k), so no two rows agree
CachedRow(s, k) == <<s, k>>

\* [sum([len(e) for e in emissivities[:t_index]]) for t_index in range(len(emissivities))]
build_previous_segments_frame_count(em) ==
    [t \in 1..Len(em) |-> SumSeq([u \in 1..(t - 1) |-> Len(em[u])])]

\* the coordinates of the first segment alone, as in griddata(fl_rs[0], ...)
first_segment_only(lists) == Range(lists[1])

\* np.concatenate of a list of 1-D arrays: only its members are used
concatenate_all(lists) == UNION {Range(lists[i]) : i \in 1..Len(lists)}

InitSegments(sizes) ==
    /\ frames \in Videos
    /\ times = FrameTimes(Len(frames))
    /\ efit_times \in EfitTimes
    /\ emissivities = [s \in 1..Len(sizes) |-> [k \in 1..sizes[s] |-> CachedRow(s, k)]]
    /\ fl_images = [s \in 1..Len(sizes) |-> SegmentLibrary(s)]
    /\ fl_r = [s \in 1..Len(sizes) |-> [i \in 1..Len(fl_images[s]) |-> s + i]]
    /\ fl_z = [s \in 1..Len(sizes) |-> [i \in 1..Len(fl_images[s]) |-> s - i]]
    /\ efit_phantom_start_index = find_nearest(efit_times, times[1])
    /\ previous_segments_frame_count = build_previous_segments_frame_count(emissivities)
    /\ r_grid = linspace(Min(concatenate_all(fl_r)), Max(concatenate_all(fl_r)))
    /\ z_grid = linspace(Min(concatenate_all(fl_z)), Max(concatenate_all(fl_z)))
    /\ lookup = [frame |-> 0, segment |-> 0, offset |-> 0, row |-> emissivities[1][1]]
    /\ smoothing_param = 0
    /\ geomatrix_smooth = <<>>
    /\ solver_args = <<>>
    /\ inv = <<>>
    /\ xcorrs = <<>>
    /\ enclosing = [frame_index |-> 0]
    /\ module_globals = <<>>
    /\ raised = "none"

InitCached ==
    /\ viewer \in {"cached", "save"}
    /\ \E sizes \in SegmentSizes : InitSegments(sizes)
    /\ geomatrix = [s \in 1..Len(fl_images) |-> build_geomatrix(fl_images[s])]
    /\ \E reconstructed \in {reshape(dot(geomatrix[1], emissivities[1][1]),
                                     ImageRows, ImageCols)} :
        artists = [plasma_image |-> frames[1],
                   reconstruction_image |-> reconstructed,
                   error_image |-> minus(frames[1], reconstructed),
                   emissivity_image |-> griddata(fl_r[1], fl_z[1], emissivities[1][1],
                                                 r_grid, z_grid),
                   l |-> efit_phantom_start_index,
                   title |-> 0]
    /\ sliders = IF viewer = "cached" THEN [gpi_slider |-> 0] ELSE <<>>
    /\ anim = IF viewer = "save"
              THEN [next |-> 0, frames |-> SaveFrames, status |-> "saving"]
              ELSE <<>>

InitAnimate ==
    /\ viewer = "animate"
    /\ \E sizes \in SegmentSizes : InitSegments(sizes)
    /\ geomatrix = <<>>
    /\ artists = [emissivity_image |-> griddata(fl_r[1], fl_z[1], emissivities[1][1],
                                                r_grid, z_grid),
                  lcfs |-> efit_phantom_start_index,
                  title |-> 0]
    /\ sliders = <<>>
    /\ \E num_frames \in 1..(MaxFrames + 1) :
        anim = [next |-> 0, frames |-> num_frames, status |-> "saving"]

\* an offset that wraps around inside the segment
frame_rel_index_wrapped(fi, efit_rel_index) ==
    (fi - PyGet(previous_segments_frame_count, efit_rel_index))
        % Len(PyGet(emissivities, efit_rel_index))

\* frame_rel_index = frame_index - previous_segments_frame_count[efit_rel_index]
frame_rel_index(fi, efit_rel_index) ==
    fi - PyGet(previous_segments_frame_count, efit_rel_index)

\* what update() draws once the cached row is read and interpolated
cached_artists(fi, efit_t_index, efit_rel_index, row) ==
    IF viewer = "animate"
    THEN [emissivity_image |-> griddata(PyGet(fl_r, efit_rel_index),
                                        PyGet(fl_z, efit_rel_index), row, r_grid, z_grid),
          lcfs |-> efit_t_index,
          title |-> fi]
    ELSE CHOOSE drawn \in
           {[plasma_image |-> PyGet(frames, fi),
             reconstruction_image |-> reconstructed,
             error_image |-> minus(PyGet(frames, fi), reconstructed),
             emissivity_image |-> griddata(PyGet(fl_r, efit_rel_index),
                                           PyGet(fl_z, efit_rel_index), row, r_grid, z_grid),
             l |-> efit_t_index,
             title |-> fi] :
            reconstructed \in {reshape(dot(PyGet(geomatrix, efit_rel_index), row),
                                       ImageRows, ImageCols)}} : TRUE

\* update(val) of slide_reconstruction and of animate_emissivity
cached_update(val, fault) ==
    \E fi \in {PyInt(val)} :
    \E g1 \in {Bind(module_globals, "frame_index", fi)} :
    IF ~InRange(Len(times), fi) THEN
        /\ module_globals' = g1
        /\ raised' = "IndexError"
        /\ UNCHANGED <<artists, lookup>>
    ELSE
    \E efit_t_index \in {find_nearest(efit_times, PyGet(times, fi))} :
    \E g2 \in {Bind(g1, "efit_t_index", efit_t_index)} :
    \E efit_rel_index \in {efit_t_index - efit_phantom_start_index} :
    IF ~InRange(Len(previous_segments_frame_count), efit_rel_index) THEN
        /\ module_globals' = g2
        /\ raised' = "IndexError"
        /\ UNCHANGED <<artists, lookup>>
    ELSE
    \E offset \in {frame_rel_index(fi, efit_rel_index)} :
    IF ~InRange(Len(PyGet(emissivities, efit_rel_index)), offset) THEN
        /\ module_globals' = g2
        /\ raised' = "IndexError"
        /\ UNCHANGED <<artists, lookup>>
    ELSE
    \E row \in {PyGet(PyGet(emissivities, efit_rel_index), offset)} :
        /\ module_globals' = g2
        /\ lookup' = [frame |-> fi, segment |-> efit_rel_index, offset |-> offset,
                      row |-> row]
        /\ IF fault = "interp"
           THEN raised' = "GriddataError" /\ UNCHANGED artists
           ELSE /\ artists' = cached_artists(fi, efit_t_index, efit_rel_index, row)
                /\ raised' = "none"

cached_keeps == UNCHANGED <<inputs, matrices, xcorrs, enclosing, inv, solver_args>>

\* gpi_slider.on_changed(update)
CachedGpiSlider ==
    /\ viewer = "cached"
    /\ \E val \in SliderPositions(Len(frames)), fault \in {"none", "interp"} :
        /\ sliders' = [sliders EXCEPT !.gpi_slider = val]
        /\ cached_update(val, fault)
    /\ UNCHANGED anim
    /\ cached_keeps

\* forward and backward: gpi_slider.set_val(frame_index + delta); Slider.set_val
\* stores the value as given and calls the observers
cached_step(delta) ==
    /\ cached_keeps
    /\ UNCHANGED anim
    /\ IF ~Bound("frame_index")
       THEN raised' = "NameError" /\ UNCHANGED <<module_globals, artists, sliders, lookup>>
       ELSE \E fi \in {module_globals.frame_index + delta} :
            /\ Followed(fi)
            /\ sliders' = [sliders EXCEPT !.gpi_slider = OfInt(fi)]
            /\ \E fault \in {"none", "interp"} : cached_update(OfInt(fi), fault)

CachedForward == viewer = "cached" /\ cached_step(1)

CachedBackward == viewer = "cached" /\ cached_step(-1)

\* anim.save(...): FuncAnimation calls update(i) for i in range(frames), one
\* after the other; an exception ends the save
AnimStep ==
    /\ viewer \in {"save", "animate"}
    /\ anim.status = "saving"
    /\ \E fault \in {"none", "interp"} : cached_update(OfInt(anim.next), fault)
    /\ anim' = [anim EXCEPT
                  !.next = IF raised' = "none" THEN anim.next + 1 ELSE anim.next,
                  !.status = IF raised' # "none" THEN "failed"
                             ELSE IF anim.next + 1 = anim.frames THEN "done"
                             ELSE "saving"]
    /\ UNCHANGED sliders
    /\ cached_keeps

InitAll == InitNnls \/ InitCorr \/ InitCached \/ InitAnimate

NextNnls == NnlsGpiSlider \/ NnlsForward \/ NnlsBackward

NextCorr == CorrGpiSlider \/ CorrFlSlider \/ CorrForward \/ CorrBackward

NextCached == CachedGpiSlider \/ CachedForward \/ CachedBackward

NextSegments == NextCached \/ AnimStep

SpecNnls == InitNnls /\ [][NextNnls]_vars

SpecCorr == InitCorr /\ [][NextCorr]_vars

SpecSegments == (InitCached \/ InitAnimate) /\ [][NextSegments]_vars

Spec == InitAll /\ [][NextNnls \/ NextCorr \/ NextSegments]_vars

(***************************************************************************)
(* The claims.                                                             *)
(***************************************************************************)
Interactive == {"corr", "nnls", "cached"}
Segmented == {"cached", "save", "animate"}
NumPixels == ImageRows * ImageCols

\* the frame the session is at: the module's frame_index once a callback has
\* bound it, the viewer function's frame_index = 0 before
CurrentFrame ==
    IF Bound("frame_index") THEN module_globals.frame_index ELSE enclosing.frame_index

\* C1: in every viewer, after any sequence of forward, back and frame-slider
\* events, frame_index is within [0, num_frames - 1].
C1_FrameIndexInRange ==
    viewer \in Interactive => CurrentFrame \in 0..(Len(frames) - 1)

\* C2: a frame recompute that fails part-way (frame out of range, solver,
\* interpolation or segment lookup failure) leaves frame_index and every
\* displayed item as they were before the call.
C2_FailureKeepsState ==
    [][raised' \in {"IndexError", "SolverError", "GriddataError"}
        => /\ CurrentFrame' = CurrentFrame
           /\ artists' = artists]_vars

\* the cached frames of all segments
TotalFrames == SumSeq([s \in 1..Len(emissivities) |-> Len(emissivities[s])])

\* the 0-based segment that holds frame f by the prefix sums of the sizes
PrefixSegment(f) ==
    CHOOSE s \in 0..(Len(emissivities) - 1) :
        /\ previous_segments_frame_count[s + 1] <= f
        /\ f < previous_segments_frame_count[s + 1] + Len(emissivities[s + 1])

\* C3: the row update() reads for a frame f, 0 <= f < total frames, is at
\* (segment, offset) with segment the one the prefix sums give for f and
\* offset = f - prefix[segment], 0 <= offset < size[segment].
C3_LookupByPrefixSums ==
    (viewer \in Segmented /\ lookup.frame \in 0..(TotalFrames - 1))
        => /\ lookup.segment = PrefixSegment(lookup.frame)
           /\ lookup.offset =
                lookup.frame - previous_segments_frame_count[lookup.segment + 1]
           /\ lookup.offset \in 0..(Len(emissivities[lookup.segment + 1]) - 1)

\* C4: an update for a frame index at or beyond the total frame count of the
\* segments raises IndexError, and no cached row is ever read for such an index.
C4_BeyondTotalRaises ==
    viewer \in Segmented
        => /\ (Bound("frame_index") /\ module_globals.frame_index >= TotalFrames)
                => raised = "IndexError"
           /\ lookup.frame < TotalFrames

\* an update for a frame the video has but the segments do not has raised
C4_Witness ==
    /\ viewer \in Segmented
    /\ Bound("efit_t_index")
    /\ module_globals.frame_index >= TotalFrames
    /\ module_globals.frame_index < Len(times)
    /\ raised = "IndexError"

\* the ranked index list: the module's indices once update_data has bound it,
\* the list built before the first frame change until then
RankedList ==
    IF Bound("indices") THEN module_globals.indices ELSE enclosing.indices

\* C5: in every reachable state of the rank-correlation viewer, the initial one
\* included, the ranked index list is in descending order of score.
C5_RankedDescending ==
    viewer = "corr"
        => \A i, j \in 1..Len(RankedList) :
              i < j => ~ScoreLess(PyGet(xcorrs, RankedList[i]),
                                  PyGet(xcorrs, RankedList[j]))

\* C6: in the ranking update_data stores, two basis elements of equal score
\* appear in ascending order of basis index.
C6_TiesAscending ==
    (viewer = "corr" /\ Bound("indices"))
        => \A i, j \in 1..Len(module_globals.indices) :
              (/\ i < j
               /\ ScoreEqual(PyGet(xcorrs, module_globals.indices[i]),
                             PyGet(xcorrs, module_globals.indices[j])))
                  => module_globals.indices[i] < module_globals.indices[j]

\* C7: the weight vector the inversion returns has num_basis elements, each >= 0.
C7_WeightsNonNegative ==
    viewer = "nnls"
        => /\ Len(inv[1]) = Len(fl_images)
           /\ \A i \in 1..Len(inv[1]) : inv[1][i] >= 0

\* a frame update with smoothing on has returned a weight vector that is not zero
C7_Witness ==
    /\ viewer = "nnls"
    /\ Bound("emissivity_grid")
    /\ raised = "none"
    /\ smoothing_param > 0
    /\ \E i \in 1..Len(inv[1]) : inv[1][i] > 0

\* pixel p of the flattened frame at Python index i
FramePixel(i, p) ==
    frames[(i % Len(frames)) + 1][((p - 1) \div ImageCols) + 1][((p - 1) % ImageCols) + 1]

\* pixel p of field-line image k
BasisPixel(k, p) ==
    fl_images[k][((p - 1) \div ImageCols) + 1][((p - 1) % ImageCols) + 1]

\* C8: the system handed to the solver is G with smoothing_param * I stacked
\* below it and the flattened frame at frame_index with N zeros appended; the
\* reconstruction displayed is G.w with the unaugmented G; with smoothing_param
\* = 0 the weights are those of plain NNLS on (G, f).
C8_TikhonovSystem ==
    (viewer = "nnls" /\ raised # "IndexError")
        => /\ Len(solver_args[1]) = NumPixels + Len(fl_images)
           /\ Len(solver_args[2]) = NumPixels + Len(fl_images)
           /\ \A k \in 1..Len(fl_images) :
                /\ \A p \in 1..NumPixels : solver_args[1][p][k] = BasisPixel(k, p)
                /\ \A i \in 1..Len(fl_images) :
                     solver_args[1][NumPixels + i][k]
                        = IF i = k THEN smoothing_param ELSE 0
                /\ solver_args[2][NumPixels + k] = 0
           /\ \A p \in 1..NumPixels : solver_args[2][p] = FramePixel(CurrentFrame, p)
           /\ raised = "none" =>
                /\ \A r \in 1..ImageRows, c \in 1..ImageCols :
                     artists.reconstruction_image[r][c]
                        = SumSeq([k \in 1..Len(fl_images) |->
                                    BasisPixel(k, (r - 1) * ImageCols + c) * inv[1][k]])
                /\ smoothing_param = 0 =>
                     inv = nnls([p \in 1..NumPixels |->
                                   [k \in 1..Len(fl_images) |-> BasisPixel(k, p)]],
                                [p \in 1..NumPixels |-> FramePixel(CurrentFrame, p)])

\* a frame update away from frame 0, with smoothing on, has been drawn
C8_Witness ==
    /\ viewer = "nnls"
    /\ Bound("frame_index")
    /\ module_globals.frame_index # 0
    /\ raised = "none"
    /\ smoothing_param > 0
    /\ artists.plasma_image # frames[1]

\* C9: the export invokes update for 0, 1, ..., num_frames - 1 and for no index
\* outside [0, num_frames), num_frames being the frames the shot has; a finished
\* export has covered them all.
C9_ExportCoversFrames ==
    viewer \in {"save", "animate"}
        => /\ CurrentFrame \in 0..(Len(times) - 1)
           /\ anim.status = "done" => anim.next = Len(times)

\* C10: after any frame-navigation events the geometry operator and its
\* smoothing-augmented variant are the matrices built at session start.
C10_MatricesKept ==
    viewer = "nnls"
        => /\ Len(geomatrix) = NumPixels
           /\ Len(geomatrix_smooth) = NumPixels + Len(fl_images)
           /\ \A k \in 1..Len(fl_images) :
                /\ \A p \in 1..NumPixels :
                     /\ geomatrix[p][k] = BasisPixel(k, p)
                     /\ geomatrix_smooth[p][k] = BasisPixel(k, p)
                /\ \A i \in 1..Len(fl_images) :
                     geomatrix_smooth[NumPixels + i][k]
                        = IF i = k THEN smoothing_param ELSE 0

\* a frame update has recomputed the per-frame arrays for another frame
C10_Witness ==
    /\ viewer = "nnls"
    /\ Bound("emissivity_grid")
    /\ raised = "none"
    /\ module_globals.frame_index # 0
    /\ artists.emissivity_image = module_globals.emissivity_grid
    /\ artists.plasma_image # frames[1]

\* the R (Z) coordinates of every field line the session loaded
AllCoordinates(c) ==
    IF viewer \in Segmented
    THEN UNION {{c[s][i] : i \in 1..Len(c[s])} : s \in 1..Len(c)}
    ELSE {c[i] : i \in 1..Len(c)}

\* grid spans exactly the coordinates cs
Spans(grid, cs) ==
    /\ grid[1] \in cs
    /\ grid[2] \in cs
    /\ \A x \in cs : grid[1] <= x /\ x <= grid[2]

\* C11 as stated: when an update of the cached-segment viewer moves the display
\* to another segment, the grid bounds become the min/max of that segment's
\* coordinates.
C11_BoundsFollowSegment ==
    [][(/\ viewer \in Segmented
        /\ raised' = "none"
        /\ lookup'.segment # lookup.segment)
        => /\ Spans(r_grid', Range(fl_r[lookup'.segment + 1]))
           /\ Spans(z_grid', Range(fl_z[lookup'.segment + 1]))]_vars

\* C11, amended: in every viewer and every state the grid bounds are the
\* min/max of all the coordinates loaded at session start (in the cached-segment
\* viewer: of all segments together, whichever segment is displayed), and the
\* displayed field is interpolated on that grid.
C11_BoundsFixed ==
    /\ Spans(r_grid, AllCoordinates(fl_r))
    /\ Spans(z_grid, AllCoordinates(fl_z))
    /\ \E field \in {IF viewer = "corr" THEN artists.xcorr_image
                      ELSE artists.emissivity_image} :
         field.r_grid = r_grid /\ field.z_grid = z_grid

\* an update has drawn a frame of the second segment, whose library differs
C11_Witness ==
    /\ viewer = "cached"
    /\ Len(emissivities) = 2
    /\ fl_images[1] # fl_images[2]
    /\ raised = "none"
    /\ lookup.segment = 1
    /\ artists.emissivity_image.r = fl_r[2]
    /\ ~Spans(r_grid, Range(fl_r[2]))

\* the frame slider shows the frame the session is at (the slider's value is
\* compared as the integer the callbacks take from it)
FrameSliderAgrees ==
    viewer \in Interactive => PyInt(sliders.gpi_slider) = CurrentFrame

\* the basis elements from best to worst match, as the display reads them: the
\* list update_data left, or the initial ascending list read from its end
BestFirst ==
    IF Bound("indices") THEN module_globals.indices ELSE reversed(enclosing.indices)

\* the displayed basis image is the one at the rank slider's value
RankSliderAgrees ==
    (viewer = "corr" /\ raised = "none")
        => \E val \in {PyInt(sliders.fl_slider)} :
             /\ InRange(Len(BestFirst), val)
             /\ artists.fl_image = PyGet(fl_images, PyGet(BestFirst, val))

\* C12: in every interactive viewer, after any interleaving of forward, back and
\* slider events, the frame slider's value equals frame_index, and in the
\* rank-correlation viewer, when the last event completed, the displayed basis
\* image is the one at the rank slider's value in the ranked list of the
\* current frame.
C12_ControlsAgree == FrameSliderAgrees /\ RankSliderAgrees
====
